---- MODULE Spec2Model ----
(***************************************************************************)
(* A model of src/app.ts: the leaderboard bot's record store (two JSON     *)
(* files guarded by proper-lockfile locks) and its message pipeline        *)
(* (app.message -> parseMessage -> handleFunctionCall).                    *)
(*                                                                         *)
(* Granularity.  The program is one Node.js process.  Code between two     *)
(* awaits runs to completion, so one action of the model is one such       *)
(* stretch: the callback that settles an awaited promise together with     *)
(* the continuation of the async function up to its next await.  The fs    *)
(* calls inside a locked section (existsSync, readFileSync, writeFileSync) *)
(* are synchronous, so the section's body runs in the same stretch as the  *)
(* callback that acquires the lock.  Several message pipelines are in      *)
(* flight at once and their stretches interleave in any order.             *)
(*                                                                         *)
(* proper-lockfile, as called by the program (lock(file, {retries: 5}),    *)
(* unlock(file), every other option at its default):                       *)
(*   - lock() first resolves the file with fs.realpath (realpath: true),   *)
(*     so it rejects with ENOENT when the file does not exist;             *)
(*   - the lock is a directory <file>.lock made with mkdir; a failed       *)
(*     mkdir is retried `retries` times and then lock() rejects (ELOCKED); *)
(*   - the process keeps a table locks[file] of the locks it holds;        *)
(*     unlock(file) looks the lock up BY FILE in that table, rejects with  *)
(*     ENOTACQUIRED when there is none, and otherwise deletes the entry    *)
(*     and removes the directory, whoever acquired it.                     *)
(***************************************************************************)
EXTENDS Integers, Sequences, FiniteSets, TLC

\* ------------------------------------------------------------------ bounds

\* Message pipelines that may be in flight at the same time.
NumProcs == 2
\* Messages delivered in one run of the concurrent specification.
MaxMsgs == 2
\* Messages delivered in one run of the sequential specification.
MaxSeqMsgs == 4
\* How far below its cap the conversation log may start in the specification
\* of the long log.
LogSlack == 1

\* ------------------------------------------------------- program constants

\* lockfile.lock(FILE, { retries: 5 })
RETRIES == 5
MAX_CHAT_HISTORY == 1000

LEADERBOARD_FILE == "leaderboard.json"
CHAT_HISTORY_FILE == "chat_history.json"
Files == {LEADERBOARD_FILE, CHAT_HISTORY_FILE}

Procs == 1..NumProcs

\* Player identifiers the intent extractor may name.
Players == {"A", "B", "C"}
\* A winner that is undefined, null or "" (all falsy for `!winner`).
NoPlayer == ""
\* Participant lists the intent extractor may produce.
PlayerLists == {<<>>, <<"A", "B">>, <<"A", "B", "C">>}

\* ------------------------------------------------------------- JSON files

\* A file is absent, holds text that JSON.parse rejects, or holds a document.
AbsentFile == [state |-> "absent", doc |-> <<>>]
CorruptFile == [state |-> "corrupt", doc |-> <<>>]

\* fs.writeFileSync(FILE, JSON.stringify(value, null, 2)): the file holds the
\* document.  An object keeps its keys in insertion order and an array its
\* elements in order; the values written are integers and strings.
JSONstringify(value) == [state |-> "ok", doc |-> value]

\* fs.existsSync(FILE)
existsSync(file) == file.state # "absent"

\* JSON.parse(fs.readFileSync(FILE)) throws on text that is no JSON.
ParseThrows(file) == file.state = "corrupt"
JSONparse(file) == file.doc

\* --------------------------------------------------------- the leaderboard

\* A leaderboard object is the sequence of its entries in key order.
Entry(player, wins) == [player |-> player, wins |-> wins]

\* player in leaderboard
HasPlayer(lb, player) == \E i \in DOMAIN lb : lb[i].player = player

\* leaderboard[player]
WinsOf(lb, player) ==
  LET i == CHOOSE j \in DOMAIN lb : lb[j].player = player IN lb[i].wins

\* players.forEach(player => { if (!(player in leaderboard)) leaderboard[player] = 0 })
RECURSIVE EnsureEntries(_, _)
EnsureEntries(lb, players) ==
  IF players = <<>> THEN lb
  ELSE EnsureEntries(
         IF HasPlayer(lb, Head(players)) THEN lb
         ELSE Append(lb, Entry(Head(players), 0)),
         Tail(players))

\* leaderboard[winner] += 1
IncrementWinner(lb, winner) ==
  [i \in DOMAIN lb |->
     IF lb[i].player = winner THEN Entry(winner, lb[i].wins + 1) ELSE lb[i]]

\* Array.prototype.sort is stable: an entry goes after every entry already
\* placed whose count is at least its own (comparator b[1] - a[1]).
RECURSIVE InsertByWins(_, _)
InsertByWins(sorted, e) ==
  IF sorted = <<>> THEN <<e>>
  ELSE IF Head(sorted).wins - e.wins < 0
       THEN <<e>> \o sorted
       ELSE <<Head(sorted)>> \o InsertByWins(Tail(sorted), e)

RECURSIVE SortFrom(_, _)
SortFrom(sorted, rest) ==
  IF rest = <<>> THEN sorted
  ELSE SortFrom(InsertByWins(sorted, Head(rest)), Tail(rest))

\* Object.entries(leaderboard).sort((a, b) => b[1] - a[1])
SortAscending(lb) ==
  LET RECURSIVE Ins(_, _)
      Ins(sorted, e) ==
        IF sorted = <<>> THEN <<e>>
        ELSE IF e.wins - Head(sorted).wins < 0
             THEN <<e>> \o sorted
             ELSE <<Head(sorted)>> \o Ins(Tail(sorted), e)
      RECURSIVE Go(_, _)
      Go(sorted, rest) ==
        IF rest = <<>> THEN sorted ELSE Go(Ins(sorted, Head(rest)), Tail(rest))
  IN Go(<<>>, lb)
sortedLeaderboard(lb) == SortFrom(<<>>, lb)

\* The lines of the leaderboard text: player, wins, and whether the bullet is
\* the crown (wins === highestScore, the first sorted entry's count).
leaderboardText(lb) ==
  LET sorted == sortedLeaderboard(lb)
      highestScore == sorted[1].wins
  IN [i \in DOMAIN sorted |->
        [player |-> sorted[i].player,
         wins |-> sorted[i].wins,
         crown |-> sorted[i].wins = highestScore]]

\* ------------------------------------------------------- the conversation

\* { role: 'user', content: text } and the assistant's message; the content
\* is identified by the number of the inbound message it belongs to.
Turn(role, id) == [role |-> role, id |-> id]

\* A log of n turns left by earlier messages, the most recent one last.
OldLog(n) ==
  [i \in 1..n |-> Turn(IF i % 2 = 1 THEN "user" ELSE "assistant", i - n)]

\* if (chatHistory.length > MAX_CHAT_HISTORY)
\*   chatHistory.splice(0, chatHistory.length - MAX_CHAT_HISTORY)
Untruncated(history) == history
Truncate(history) ==
  IF Len(history) > MAX_CHAT_HISTORY
  THEN SubSeq(history, Len(history) - MAX_CHAT_HISTORY + 1, Len(history))
  ELSE history

\* --------------------------------------------------- the intent extractor

\* assistantMessage.function_call: its name and its arguments text.
\* `parsable` is whether JSON.parse accepts the arguments text; hasPlayers is
\* whether the parsed arguments carry a players array.
FunctionCall(name, parsable, hasPlayers, players, winner) ==
  [name |-> name, parsable |-> parsable, hasPlayers |-> hasPlayers,
   players |-> players, winner |-> winner]

\* No function call (null).
NoCall == FunctionCall("", TRUE, FALSE, <<>>, NoPlayer)
\* A function call nothing has read yet: its name and arguments are first
\* read by handleFunctionCall, and are drawn there.
UnreadCall == FunctionCall("?", TRUE, FALSE, <<>>, NoPlayer)

FunctionCalls ==
  {FunctionCall("show_leaderboard", TRUE, FALSE, <<>>, NoPlayer),
   FunctionCall("unknown_function", TRUE, FALSE, <<>>, NoPlayer),
   FunctionCall("show_leaderboard", FALSE, FALSE, <<>>, NoPlayer),
   FunctionCall("record_game", FALSE, FALSE, <<>>, NoPlayer)}
  \cup {FunctionCall("record_game", TRUE, FALSE, <<>>, w) :
          w \in {NoPlayer, "A"}}
  \cup {FunctionCall("record_game", TRUE, TRUE, l, w) :
          l \in PlayerLists, w \in Players \cup {NoPlayer}}

\* What openai.chat.completions.create may do: throw, answer with text only,
\* or answer with a function call.
ExtractorResults ==
  {[outcome |-> "error", call |-> NoCall],
   [outcome |-> "text", call |-> NoCall],
   [outcome |-> "call", call |-> UnreadCall]}

\* ----------------------------------------------------------------- replies

Reply(kind, winner, players, lines) ==
  [kind |-> kind, winner |-> winner, players |-> players, lines |-> lines]

\* say('The leaderboard is currently empty.')
EmptyReply == Reply("empty", NoPlayer, <<>>, <<>>)
\* say(`*Leaderboard:*\n${leaderboardText}`)
LeaderboardReply(lb) == Reply("leaderboard", NoPlayer, <<>>, leaderboardText(lb))
\* say("Sorry, I couldn't find the players or winner in your request.")
MissingReply == Reply("missing", NoPlayer, <<>>, <<>>)
\* say(`The winner *${winner}* is not among the list of players: ...`)
NotAmongReply(fc) == Reply("notamong", fc.winner, fc.players, <<>>)
\* say(`:trophy: Game recorded! *${winner}* won the game among ...`)
RecordedReply(fc) == Reply("recorded", fc.winner, fc.players, <<>>)

\* ------------------------------------------------------------- validation

\* !players || !winner : an empty array is truthy, an absent one is not.
MissingArgs(fc) == ~fc.hasPlayers \/ fc.winner = NoPlayer

\* players.includes(winner)
IncludesAlways(fc) == TRUE
Includes(fc) == \E i \in DOMAIN fc.players : fc.players[i] = fc.winner

\* --------------------------------------------------------------- the state

VARIABLES
  files,        \* files[f]: the content of file f on disk
  lockDir,      \* lockDir[f]: the lock directory f.lock exists
  locks,        \* locks[f]: proper-lockfile's table entry for f: the pipeline
                \*   whose lock() made the entry, or nothing
  pc,           \* pc[p]: where pipeline p is
  phase,        \* phase[p]: inside a store operation, the await it is at
  attempts,     \* attempts[p]: retries used by the lock() in progress
  opResult,     \* opResult[p]: how the lock() of the operation in progress ended
  msg,          \* msg[p]: the inbound message p handles
  chatHistory,  \* chatHistory[p]: the handler's local chatHistory array
  functionCall, \* functionCall[p]: what parseMessage returned
  leaderboard,  \* leaderboard[p]: handleFunctionCall's local leaderboard
  replies,      \* replies[p]: what p has passed to say() for this message
  wrote,        \* wrote[p]: p has written the leaderboard file for this message
  readFailed,   \* readFailed[p]: the readLeaderboard() of p's command failed
  started,      \* messages delivered so far
  recorded      \* wins and participants of the commands that replied success

vars == <<files, lockDir, locks, pc, phase, attempts, opResult, msg,
          chatHistory, functionCall, leaderboard, replies, wrote, readFailed,
          started,
          recorded>>

StoreOps == {"readChatHistory", "writeChatHistory", "parseWrite",
             "showRead", "recordRead", "recordWrite"}

\* The file a store operation locks.
FileOf(op) ==
  IF op \in {"readChatHistory", "writeChatHistory", "parseWrite"}
  THEN CHAT_HISTORY_FILE
  ELSE LEADERBOARD_FILE

NoMessage == [id |-> 0, kind |-> "none"]

NoWins == [wins |-> [x \in Players |-> 0], seen |-> {}]

Init ==
  /\ files \in {fs \in [Files -> {AbsentFile, CorruptFile, JSONstringify(<<>>)}] :
                  fs[CHAT_HISTORY_FILE] # CorruptFile}
  /\ lockDir = [f \in Files |-> FALSE]
  /\ locks = [f \in Files |-> {}]
  /\ pc = [p \in Procs |-> "idle"]
  /\ phase = [p \in Procs |-> "-"]
  /\ attempts = [p \in Procs |-> 0]
  /\ opResult = [p \in Procs |-> "none"]
  /\ msg = [p \in Procs |-> NoMessage]
  /\ chatHistory = [p \in Procs |-> <<>>]
  /\ functionCall = [p \in Procs |-> NoCall]
  /\ leaderboard = [p \in Procs |-> <<>>]
  /\ replies = [p \in Procs |-> <<>>]
  /\ wrote = [p \in Procs |-> FALSE]
  /\ readFailed = [p \in Procs |-> FALSE]
  /\ started = 0
  /\ recorded = NoWins

\* ------------------------------------------------- steps of the pipeline

\* The async function calls a store operation: lockfile.lock() is pending.
BeginOp(p, op) ==
  /\ pc' = [pc EXCEPT ![p] = op]
  /\ phase' = [phase EXCEPT ![p] = "lock"]
  /\ attempts' = [attempts EXCEPT ![p] = 0]
  /\ opResult' = [opResult EXCEPT ![p] = "none"]

\* The pipeline is outside every store operation, at `at`.
Leave(p, at) ==
  /\ pc' = [pc EXCEPT ![p] = at]
  /\ phase' = [phase EXCEPT ![p] = "-"]
  /\ attempts' = [attempts EXCEPT ![p] = 0]
  /\ opResult' = [opResult EXCEPT ![p] = "none"]

\* await say(text), then the handler returns.
Say(p, reply) ==
  /\ replies' = [replies EXCEPT ![p] = Append(@, reply)]
  /\ Leave(p, "done")

\* if ((message as any).subtype === 'bot_message') return;
IgnoresNone(kind) == FALSE
Ignored(kind) == kind = "bot"

\* app.message: a message is delivered to an idle pipeline.  A bot message
\* and a message without text end the handler at once; otherwise the handler
\* calls readChatHistory().
Deliver(p, max) ==
  /\ pc[p] \in {"idle", "done", "failed"}
  /\ started < max
  /\ started' = started + 1
  /\ \E kind \in {"bot", "notext", "text"} :
       /\ msg' = [msg EXCEPT ![p] = [id |-> started + 1, kind |-> kind]]
       /\ IF Ignored(kind) \/ kind = "notext"
          THEN Leave(p, "done")
          ELSE BeginOp(p, "readChatHistory")
  /\ chatHistory' = [chatHistory EXCEPT ![p] = <<>>]
  /\ functionCall' = [functionCall EXCEPT ![p] = NoCall]
  /\ leaderboard' = [leaderboard EXCEPT ![p] = <<>>]
  /\ replies' = [replies EXCEPT ![p] = <<>>]
  /\ wrote' = [wrote EXCEPT ![p] = FALSE]
  /\ readFailed' = [readFailed EXCEPT ![p] = FALSE]
  /\ UNCHANGED <<files, lockDir, locks, recorded>>

\* parseMessage: the request to the model settles.  On an error the catch
\* returns null and the handler ends.  Otherwise the assistant's message is
\* pushed, the history truncated, and writeChatHistory() called.
Extract(p) ==
  /\ pc[p] = "parseMessage"
  /\ \E r \in ExtractorResults :
       IF r.outcome = "error"
       THEN /\ Leave(p, "done")
            /\ chatHistory' = [chatHistory EXCEPT ![p] = <<>>]
            /\ UNCHANGED functionCall
       ELSE /\ BeginOp(p, "parseWrite")
            /\ chatHistory' = [chatHistory EXCEPT ![p] =
                 Truncate(Append(@, Turn("assistant", msg[p].id)))]
            /\ functionCall' = [functionCall EXCEPT ![p] = r.call]
  /\ UNCHANGED <<files, lockDir, locks, msg, leaderboard, replies, wrote, readFailed,
                 started, recorded>>

\* handleFunctionCall up to its first await.
HandleFunctionCall(p, fc) ==
  /\ functionCall' = [functionCall EXCEPT ![p] = fc]
  /\ UNCHANGED <<recorded, leaderboard>>
  /\ chatHistory' = [chatHistory EXCEPT ![p] = <<>>]
  /\ IF fc = NoCall
     THEN Leave(p, "done") /\ UNCHANGED replies
     ELSE IF ~fc.parsable
     THEN Leave(p, "failed") /\ UNCHANGED replies
     ELSE IF fc.name = "show_leaderboard"
     THEN BeginOp(p, "showRead") /\ UNCHANGED replies
     ELSE IF fc.name = "record_game"
     THEN IF MissingArgs(fc)
          THEN Say(p, MissingReply)
          ELSE IF ~Includes(fc)
          THEN Say(p, NotAmongReply(fc))
          ELSE BeginOp(p, "recordRead") /\ UNCHANGED replies
     ELSE Leave(p, "done") /\ UNCHANGED replies

\* parseMessage returns assistantMessage.function_call or null, and
\* app.message calls handleFunctionCall when it is a call.
Dispatch(p) ==
  IF functionCall[p] = NoCall
  THEN HandleFunctionCall(p, NoCall)
  ELSE \E fc \in FunctionCalls : HandleFunctionCall(p, fc)

\* handleFunctionCall, show_leaderboard, after readLeaderboard() returned.
ShowLeaderboardUnguarded(p) ==
  IF Len(leaderboard[p]) > 0
  THEN Say(p, LeaderboardReply(leaderboard[p]))
  ELSE Leave(p, "failed") /\ UNCHANGED replies
ShowLeaderboard(p) ==
  IF Len(leaderboard[p]) > 0
  THEN Say(p, LeaderboardReply(leaderboard[p]))
  ELSE Say(p, EmptyReply)

\* The store operation of p has returned: the caller runs to its next await.
Return(p) ==
  LET fc == functionCall[p] IN
  CASE pc[p] = "readChatHistory" ->
         /\ chatHistory' = [chatHistory EXCEPT ![p] =
              Truncate(Append(@, Turn("user", msg[p].id)))]
         /\ BeginOp(p, "writeChatHistory")
         /\ UNCHANGED <<functionCall, leaderboard, replies, recorded>>
    [] pc[p] = "writeChatHistory" ->
         /\ Leave(p, "parseMessage")
         /\ UNCHANGED <<chatHistory, functionCall, leaderboard, replies, recorded>>
    [] pc[p] = "parseWrite" -> Dispatch(p)
    [] pc[p] = "showRead" ->
         /\ ShowLeaderboard(p)
         /\ UNCHANGED <<chatHistory, functionCall, leaderboard, recorded>>
    [] pc[p] = "recordRead" ->
         /\ leaderboard' = [leaderboard EXCEPT ![p] =
              IncrementWinner(EnsureEntries(@, fc.players), fc.winner)]
         /\ BeginOp(p, "recordWrite")
         /\ UNCHANGED <<chatHistory, functionCall, replies, recorded>>
    [] pc[p] = "recordWrite" ->
         /\ Say(p, RecordedReply(fc))
         /\ recorded' =
              [wins |-> [recorded.wins EXCEPT ![fc.winner] = @ + 1],
               seen |-> recorded.seen \cup {fc.players[i] : i \in DOMAIN fc.players}]
         /\ UNCHANGED <<chatHistory, functionCall, leaderboard>>

\* ------------------------------------------------------- store operations

\* The try block after the lock, for each store function: what the function
\* will return (kept in the caller's local) and what it does to the file.
ReadBody(file) ==
  IF ~existsSync(file) THEN <<>>
  ELSE IF ParseThrows(file) THEN <<>>
  ELSE JSONparse(file)

readLeaderboard(p, f) ==
  /\ leaderboard' = [leaderboard EXCEPT ![p] = ReadBody(files[f])]
  /\ readFailed' = [readFailed EXCEPT ![p] =
       existsSync(files[f]) /\ ParseThrows(files[f])]
  /\ UNCHANGED <<files, chatHistory, wrote>>

writeLeaderboardMerge(p, f) ==
  /\ files' = [files EXCEPT ![f] =
       IF files[f].state = "ok"
       THEN JSONstringify(IncrementWinner(
              EnsureEntries(files[f].doc, functionCall[p].players),
              functionCall[p].winner))
       ELSE JSONstringify(leaderboard[p])]
  /\ wrote' = [wrote EXCEPT ![p] = TRUE]
  /\ UNCHANGED <<leaderboard, chatHistory, readFailed>>
writeLeaderboard(p, f) ==
  /\ files' = [files EXCEPT ![f] = JSONstringify(leaderboard[p])]
  /\ wrote' = [wrote EXCEPT ![p] = TRUE]
  /\ UNCHANGED <<leaderboard, chatHistory, readFailed>>

readChatHistory(p, f) ==
  /\ chatHistory' = [chatHistory EXCEPT ![p] = ReadBody(files[f])]
  /\ UNCHANGED <<files, leaderboard, wrote, readFailed>>

writeChatHistory(p, f) ==
  /\ files' = [files EXCEPT ![f] = JSONstringify(chatHistory[p])]
  /\ UNCHANGED <<leaderboard, chatHistory, wrote, readFailed>>

\* The function's try block, entered with the lock.
Body(p, f) ==
  CASE pc[p] \in {"showRead", "recordRead"} -> readLeaderboard(p, f)
    [] pc[p] = "recordWrite" -> writeLeaderboard(p, f)
    [] pc[p] = "readChatHistory" -> readChatHistory(p, f)
    [] pc[p] \in {"writeChatHistory", "parseWrite"} -> writeChatHistory(p, f)

\* The function's catch block, entered when lock() rejects: a read returns
\* the empty value, a write is dropped.
Catch(p) ==
  /\ leaderboard' = IF pc[p] \in {"showRead", "recordRead"}
                    THEN [leaderboard EXCEPT ![p] = <<>>] ELSE leaderboard
  /\ chatHistory' = IF pc[p] = "readChatHistory"
                    THEN [chatHistory EXCEPT ![p] = <<>>] ELSE chatHistory
  /\ readFailed' = IF pc[p] \in {"showRead", "recordRead"}
                   THEN [readFailed EXCEPT ![p] = TRUE] ELSE readFailed
  /\ UNCHANGED <<files, wrote>>

\* The try/catch is over and the finally block has called unlock().
ToFinally(p, result) ==
  /\ phase' = [phase EXCEPT ![p] = "unlock"]
  /\ opResult' = [opResult EXCEPT ![p] = result]
  /\ UNCHANGED <<pc, attempts>>

Locking(p) == pc[p] \in StoreOps /\ phase[p] = "lock"

\* lock(): fs.realpath fails, the file does not exist.
LockENOENT(p) ==
  /\ Locking(p)
  /\ ~existsSync(files[FileOf(pc[p])])
  /\ Catch(p)
  /\ ToFinally(p, "ENOENT")
  /\ UNCHANGED <<lockDir, locks, msg, functionCall, replies, started, recorded>>

\* lock(): mkdir succeeds; the lock is entered in the table and the try
\* block runs.
LockAcquire(p) ==
  LET f == FileOf(pc[p]) IN
  /\ Locking(p)
  /\ existsSync(files[f])
  /\ ~lockDir[f]
  /\ lockDir' = [lockDir EXCEPT ![f] = TRUE]
  /\ locks' = [locks EXCEPT ![f] = {p}]
  /\ Body(p, f)
  /\ ToFinally(p, "acquired")
  /\ UNCHANGED <<msg, functionCall, replies, started, recorded>>

\* lock(): mkdir fails, the lock directory exists; the attempt is retried.
LockRetry(p) ==
  /\ Locking(p)
  /\ existsSync(files[FileOf(pc[p])])
  /\ lockDir[FileOf(pc[p])]
  /\ attempts[p] < RETRIES
  /\ attempts' = [attempts EXCEPT ![p] = @ + 1]
  /\ UNCHANGED <<files, lockDir, locks, pc, phase, opResult, msg, chatHistory,
                 functionCall, leaderboard, replies, wrote, readFailed, started, recorded>>

\* lock(): mkdir fails and no retry is left; lock() rejects.
LockGiveUpUncaught(p) ==
  /\ Locking(p)
  /\ existsSync(files[FileOf(pc[p])])
  /\ lockDir[FileOf(pc[p])]
  /\ attempts[p] >= RETRIES
  /\ pc' = [pc EXCEPT ![p] = "failed"]
  /\ phase' = [phase EXCEPT ![p] = "-"]
  /\ opResult' = [opResult EXCEPT ![p] = "ELOCKED"]
  /\ UNCHANGED <<files, lockDir, locks, attempts, msg, chatHistory, functionCall,
                 leaderboard, replies, wrote, readFailed, started, recorded>>
LockGiveUp(p) ==
  /\ Locking(p)
  /\ existsSync(files[FileOf(pc[p])])
  /\ lockDir[FileOf(pc[p])]
  /\ attempts[p] >= RETRIES
  /\ Catch(p)
  /\ ToFinally(p, "ELOCKED")
  /\ UNCHANGED <<lockDir, locks, msg, functionCall, replies, started, recorded>>

\* unlock() finds an entry for the file in the table.
UnlockSkipped(p, f) == FALSE
UnlockFinds(p, f) == existsSync(files[f]) /\ locks[f] # {}

\* unlock() rejects (ENOENT from realpath, or ENOTACQUIRED); the .catch logs
\* it and the store function returns.
UnlockRejected(p) ==
  /\ pc[p] \in StoreOps /\ phase[p] = "unlock"
  /\ ~UnlockFinds(p, FileOf(pc[p]))
  /\ Return(p)
  /\ UNCHANGED <<files, lockDir, locks, msg, wrote, readFailed, started>>

\* unlock() deletes the table entry and starts removing the lock directory.
UnlockKeepsEntry(p) ==
  /\ pc[p] \in StoreOps /\ phase[p] = "unlock"
  /\ UnlockFinds(p, FileOf(pc[p]))
  /\ phase' = [phase EXCEPT ![p] = "rmdir"]
  /\ UNCHANGED <<files, lockDir, locks, pc, attempts, opResult, msg, chatHistory,
                 functionCall, leaderboard, replies, wrote, readFailed, started, recorded>>
UnlockRelease(p) ==
  LET f == FileOf(pc[p]) IN
  /\ pc[p] \in StoreOps /\ phase[p] = "unlock"
  /\ UnlockFinds(p, f)
  /\ locks' = [locks EXCEPT ![f] = {}]
  /\ phase' = [phase EXCEPT ![p] = "rmdir"]
  /\ UNCHANGED <<files, lockDir, pc, attempts, opResult, msg, chatHistory,
                 functionCall, leaderboard, replies, wrote, readFailed, started, recorded>>

\* The lock directory is removed; unlock() resolves and the store function
\* returns.
RemoveLock(p) ==
  /\ pc[p] \in StoreOps /\ phase[p] = "rmdir"
  /\ lockDir' = [lockDir EXCEPT ![FileOf(pc[p])] = FALSE]
  /\ Return(p)
  /\ UNCHANGED <<files, locks, msg, wrote, readFailed, started>>

\* ---------------------------------------------------------- specifications

Step(p) ==
  \/ Extract(p)
  \/ LockENOENT(p)
  \/ LockAcquire(p)
  \/ LockRetry(p)
  \/ LockGiveUp(p)
  \/ UnlockRejected(p)
  \/ UnlockRelease(p)
  \/ RemoveLock(p)

\* Messages arrive while others are in flight.
Next == \E p \in Procs : Deliver(p, MaxMsgs) \/ Step(p)

Spec == Init /\ [][Next]_vars

\* No pipeline is in flight.
Quiet == \A p \in Procs : pc[p] \in {"idle", "done", "failed"}

\* The steps of a pipeline that runs alone: it never finds a lock directory
\* (SeqNeverContended), so lock() neither retries nor gives up.
StepAlone(p) ==
  \/ Extract(p)
  \/ LockENOENT(p)
  \/ LockAcquire(p)
  \/ UnlockRejected(p)
  \/ UnlockRelease(p)
  \/ RemoveLock(p)

\* Each message is processed to completion before the next one is delivered:
\* one handler invocation at a time, here always pipeline 1.
NextSeq == (Quiet /\ Deliver(1, MaxSeqMsgs)) \/ StepAlone(1)

SpecSeq == Init /\ [][NextSeq]_vars

\* The leaderboard file exists when the process starts.
InitStored == Init /\ existsSync(files[LEADERBOARD_FILE])

SpecStored == InitStored /\ [][Next]_vars

\* The conversation log exists when the process starts and is empty or within
\* LogSlack turns of its cap; the leaderboard file is absent or empty.
InitLog ==
  /\ files \in {[f \in Files |->
                  IF f = CHAT_HISTORY_FILE THEN JSONstringify(OldLog(n)) ELSE lb] :
                n \in {0} \cup ((MAX_CHAT_HISTORY - LogSlack)..MAX_CHAT_HISTORY),
                lb \in {AbsentFile, JSONstringify(<<>>)}}
  /\ lockDir = [f \in Files |-> FALSE]
  /\ locks = [f \in Files |-> {}]
  /\ pc = [p \in Procs |-> "idle"]
  /\ phase = [p \in Procs |-> "-"]
  /\ attempts = [p \in Procs |-> 0]
  /\ opResult = [p \in Procs |-> "none"]
  /\ msg = [p \in Procs |-> NoMessage]
  /\ chatHistory = [p \in Procs |-> <<>>]
  /\ functionCall = [p \in Procs |-> NoCall]
  /\ leaderboard = [p \in Procs |-> <<>>]
  /\ replies = [p \in Procs |-> <<>>]
  /\ wrote = [p \in Procs |-> FALSE]
  /\ readFailed = [p \in Procs |-> FALSE]
  /\ started = 0
  /\ recorded = NoWins

\* Messages processed one at a time over a long conversation log.
SpecLog == InitLog /\ [][NextSeq]_vars

\* Under SpecSeq no lock() finds the lock directory present.
SeqNeverContended ==
  \A p \in Procs : Locking(p) => ~lockDir[FileOf(pc[p])]

\* ------------------------------------------------------------------ claims

\* The persisted leaderboard document, empty when the file holds none.
Persisted ==
  IF files[LEADERBOARD_FILE].state = "ok" THEN files[LEADERBOARD_FILE].doc ELSE <<>>

\* The participants of a command, as a set.
Participants(fc) == {fc.players[i] : i \in DOMAIN fc.players}

\* A RecordGame command that fails validation, as the specification states
\* it: no participant list or an empty one, no winner, or a winner that is
\* not a participant.
InvalidCommand(fc) ==
  \/ ~fc.hasPlayers
  \/ fc.players = <<>>
  \/ fc.winner = NoPlayer
  \/ fc.winner \notin Participants(fc)

IsRecordGame(fc) == fc.name = "record_game" /\ fc.parsable

\* A ShowLeaderboard command: the call names it and its arguments parse.
IsShowLeaderboard(fc) == fc.name = "show_leaderboard" /\ fc.parsable

\* C1.  Commands processed one at a time, from a leaderboard file that is
\* absent (or holds no usable document): once every command has completed,
\* each player's persisted win count is the number of commands that player
\* won, and every participant of a command has an entry.
C1_WinsAreCounted ==
  Quiet =>
    \A x \in Players :
      /\ x \in recorded.seen => HasPlayer(Persisted, x)
      /\ HasPlayer(Persisted, x) => WinsOf(Persisted, x) = recorded.wins[x]
      /\ ~HasPlayer(Persisted, x) => recorded.wins[x] = 0

\* C2.  A RecordGame command that fails validation performs no write of the
\* leaderboard file and never enters the read-modify-write of the store.
C2_RejectedNeverWrites ==
  \A p \in Procs :
    (IsRecordGame(functionCall[p]) /\ InvalidCommand(functionCall[p])) =>
      /\ ~wrote[p]
      /\ pc[p] \notin {"recordRead", "recordWrite"}

\* C2 witness: a rejected command has completed over a leaderboard file that
\* a write would have changed.
C2_Witness ==
  \E p \in Procs :
    /\ IsRecordGame(functionCall[p]) /\ InvalidCommand(functionCall[p])
    /\ functionCall[p].winner \in Players
    /\ pc[p] = "done" /\ Len(replies[p]) = 1
    /\ files[LEADERBOARD_FILE].state = "ok"
    /\ ~HasPlayer(Persisted, functionCall[p].winner)

\* p is in a store operation on file f.
InOpOn(p, f) == pc[p] \in StoreOps /\ FileOf(pc[p]) = f

\* p is inside the locked section of a store operation on f: its lock() has
\* resolved and its unlock() has not yet settled.
InLockedSection(p, f) == InOpOn(p, f) /\ opResult[p] = "acquired"

\* C3.  For each file, at most one store operation is inside its locked
\* section at a time.
C3_OneInLockedSection ==
  \A f \in Files : Cardinality({p \in Procs : InLockedSection(p, f)}) <= 1

\* p has written the leaderboard for a command won by w, with count n.
WroteCount(p, w, n) ==
  /\ wrote[p]
  /\ functionCall[p].winner = w
  /\ HasPlayer(leaderboard[p], w)
  /\ WinsOf(leaderboard[p], w) = n

\* C4.  The read and the write of a RecordGame are separate locked sections:
\* when a command writes count n for its winner while the file already holds
\* the count n written by another command for the same winner (both read
\* n - 1), the persisted count stays n: the second win is not added.
C4_SecondWriteOverwrites ==
  [][\A p, q \in Procs : \A w \in Players :
       (/\ p # q
        /\ ~wrote[q] /\ wrote'[q]
        /\ functionCall[q].winner = w
        /\ WroteCount(p, w, WinsOf(leaderboard[q], w))
        /\ HasPlayer(Persisted, w)
        /\ WinsOf(Persisted, w) = WinsOf(leaderboard[p], w))
       => WinsOf(Persisted', w) = WinsOf(Persisted, w)]_vars

\* C4 witness: two commands won by the same player both read the same count,
\* both wrote, both replied success, and one win is persisted for two recorded.
C4_Witness ==
  \E p, q \in Procs : \E w \in Players :
    /\ p # q
    /\ pc[p] = "done" /\ pc[q] = "done"
    /\ replies[p] = <<RecordedReply(functionCall[p])>>
    /\ replies[q] = <<RecordedReply(functionCall[q])>>
    /\ WroteCount(p, w, 1) /\ WroteCount(q, w, 1)
    /\ HasPlayer(Persisted, w) /\ WinsOf(Persisted, w) = 1
    /\ recorded.wins[w] = 2

\* C5.  Every participant of a RecordGame command that replied success has an
\* entry in the persisted leaderboard, and every persisted count is a
\* non-negative integer.
C5_ParticipantsHaveEntries ==
  /\ \A x \in recorded.seen : HasPlayer(Persisted, x)
  /\ \A i \in DOMAIN Persisted : Persisted[i].wins \in Nat

\* C6.  A store operation that acquired its lock holds it no longer once it
\* has returned: a pipeline has an entry in the lock table only while it is
\* in the finally block of the operation that acquired it, and when no store
\* operation is in progress on a file, the file has neither a table entry nor
\* a lock directory.
C6_LocksReleased ==
  \A f \in Files :
    /\ \A p \in locks[f] :
         InOpOn(p, f) /\ phase[p] = "unlock" /\ opResult[p] = "acquired"
    /\ (\A p \in Procs : ~InOpOn(p, f)) => (locks[f] = {} /\ ~lockDir[f])

\* C6 witness: a command that took the leaderboard lock for its read and for
\* its write has completed, nothing is in flight, and no lock is left.
C6_Witness ==
  /\ Quiet
  /\ \E p \in Procs : pc[p] = "done" /\ wrote[p]
  /\ \A f \in Files : locks[f] = {} /\ ~lockDir[f]

\* C7.  lock() retries at most RETRIES times.  When it gives up, the store
\* operation goes on to its finally block and returns: a read has the empty
\* mapping as its result, a write has written nothing, the pipeline has not
\* failed, and a pipeline inside a store operation always has a next step.
C7_BoundedRetries ==
  \A p \in Procs :
    /\ attempts[p] <= RETRIES
    /\ opResult[p] = "ELOCKED" =>
         /\ pc[p] \in StoreOps /\ phase[p] \in {"unlock", "rmdir"}
         /\ pc[p] \in {"showRead", "recordRead"} => leaderboard[p] = <<>>
         /\ pc[p] = "readChatHistory" => chatHistory[p] = <<>>
         /\ pc[p] = "recordWrite" => ~wrote[p]
    /\ pc[p] \in StoreOps => ENABLED Step(p)

\* C7 witness: a RecordGame read gave up on the lock after all its retries
\* while the file held a non-empty leaderboard.
C7_Witness ==
  \E p \in Procs :
    /\ pc[p] = "recordRead" /\ opResult[p] = "ELOCKED"
    /\ attempts[p] = RETRIES
    /\ Persisted # <<>>

\* C8.  RecordGame validation: a missing or empty participant list, or a
\* missing winner, gets the "couldn't find the players or winner" reply and
\* nothing else; only otherwise a winner outside the list gets the reply
\* naming the winner and the list; a rejected command never gets the success
\* reply.
C8_ValidationOrder ==
  \A p \in Procs :
    LET fc == functionCall[p] IN
    (pc[p] = "done" /\ IsRecordGame(fc) /\ InvalidCommand(fc)) =>
      IF ~fc.hasPlayers \/ fc.players = <<>> \/ fc.winner = NoPlayer
      THEN replies[p] = <<MissingReply>>
      ELSE replies[p] = <<NotAmongReply(fc)>>

\* C9.  ShowLeaderboard never writes the leaderboard file; a failed read
\* gives it the empty mapping; it completes, and on an empty mapping its one
\* reply is the fixed empty-leaderboard text.
C9_ShowNeverWrites ==
  \A p \in Procs :
    IsShowLeaderboard(functionCall[p]) =>
      /\ ~wrote[p]
      /\ pc[p] \in {"showRead", "done"}
      /\ (pc[p] = "showRead" /\ opResult[p] \in {"ENOENT", "ELOCKED"}) =>
           leaderboard[p] = <<>>
      /\ (pc[p] = "showRead" /\ opResult[p] = "acquired"
            /\ files[LEADERBOARD_FILE].state = "corrupt") =>
           leaderboard[p] = <<>>
      /\ pc[p] = "done" =>
           /\ Len(replies[p]) = 1
           /\ leaderboard[p] = <<>> => replies[p] = <<EmptyReply>>

\* C9 witness: a ShowLeaderboard whose read gave up on the lock has replied
\* that the leaderboard is empty while the file holds entries.
C9_Witness ==
  \E p \in Procs :
    /\ IsShowLeaderboard(functionCall[p])
    /\ pc[p] = "done" /\ replies[p] = <<EmptyReply>>
    /\ Persisted # <<>>

\* The place of a player in a leaderboard object.
PlaceOf(lb, player) == CHOOSE i \in DOMAIN lb : lb[i].player = player

\* The lines list the entries of lb once each, by non-increasing count,
\* equal counts in stored order, the crown on exactly the maximal counts.
ListsByWins(lines, lb) ==
  /\ Len(lines) = Len(lb)
  /\ \A i \in DOMAIN lb :
       \E j \in DOMAIN lines :
         /\ lines[j].player = lb[i].player /\ lines[j].wins = lb[i].wins
         /\ \A k \in DOMAIN lines : lines[k].player = lb[i].player => k = j
  /\ \A j, k \in DOMAIN lines :
       j < k =>
         /\ lines[j].wins >= lines[k].wins
         /\ lines[j].wins = lines[k].wins =>
              PlaceOf(lb, lines[j].player) < PlaceOf(lb, lines[k].player)
  /\ \A j \in DOMAIN lines :
       lines[j].crown <=> (\A i \in DOMAIN lb : lb[i].wins <= lines[j].wins)

\* C10.  The reply of ShowLeaderboard on a non-empty leaderboard lists every
\* entry once, by non-increasing count, equal counts in stored order, with
\* the leader marker on exactly the entries at the maximum; a player with
\* more wins than every other is first and alone marked.
C10_LeaderboardOrder ==
  \A p \in Procs :
    (/\ IsShowLeaderboard(functionCall[p])
     /\ pc[p] = "done" /\ leaderboard[p] # <<>>) =>
      /\ Len(replies[p]) = 1
      /\ replies[p][1].kind = "leaderboard"
      /\ ListsByWins(replies[p][1].lines, leaderboard[p])
      /\ \A x \in Players :
           (/\ HasPlayer(leaderboard[p], x)
            /\ \A i \in DOMAIN leaderboard[p] :
                 leaderboard[p][i].player # x =>
                   leaderboard[p][i].wins < WinsOf(leaderboard[p], x)) =>
             /\ replies[p][1].lines[1].player = x
             /\ replies[p][1].lines[1].wins = WinsOf(leaderboard[p], x)
             /\ \A j \in DOMAIN replies[p][1].lines :
                  replies[p][1].lines[j].crown <=> j = 1

\* C10 witness: a listing of three entries whose leader, with several wins,
\* is stored second and whose other two entries are tied.
C10_Witness ==
  \E p \in Procs :
    /\ IsShowLeaderboard(functionCall[p])
    /\ pc[p] = "done" /\ Len(leaderboard[p]) = 3
    /\ leaderboard[p][2].wins >= 2
    /\ leaderboard[p][2].wins > leaderboard[p][1].wins
    /\ leaderboard[p][1].wins = leaderboard[p][3].wins
    /\ replies[p][1].lines[1].player = leaderboard[p][2].player

\* The persisted conversation log, empty when the file holds none.
PersistedLog ==
  IF files[CHAT_HISTORY_FILE].state = "ok" THEN files[CHAT_HISTORY_FILE].doc
  ELSE <<>>

\* The last turn of a non-empty log.
LastTurn(log) == log[Len(log)]

\* C11.  The persisted conversation log never holds more than
\* MAX_CHAT_HISTORY turns.  Every write of the log persists the handler's
\* array as it is, already cut to its most recent MAX_CHAT_HISTORY turns: over
\* a log of MAX_CHAT_HISTORY turns the write persists the previous last
\* MAX_CHAT_HISTORY - 1 turns followed by the new turn of the message, and
\* over a shorter log the previous log followed by the new turn.
C11_LogBounded ==
  /\ [](Len(PersistedLog) <= MAX_CHAT_HISTORY)
  /\ [][files'[CHAT_HISTORY_FILE] # files[CHAT_HISTORY_FILE] =>
          /\ files'[CHAT_HISTORY_FILE].state = "ok"
          /\ \E p \in Procs :
               /\ pc[p] \in {"writeChatHistory", "parseWrite"}
               /\ PersistedLog' = chatHistory[p]
               /\ Truncate(chatHistory[p]) = chatHistory[p]
               /\ LastTurn(PersistedLog').id = msg[p].id
          /\ IF Len(PersistedLog) = MAX_CHAT_HISTORY
             THEN /\ Len(PersistedLog') = MAX_CHAT_HISTORY
                  /\ PersistedLog' =
                       Append(Tail(PersistedLog), LastTurn(PersistedLog'))
             ELSE PersistedLog' = Append(PersistedLog, LastTurn(PersistedLog'))
     ]_vars

\* C11 witness: the log holds MAX_CHAT_HISTORY turns, the last of them from
\* the second message or later, and the oldest turns it started with are gone.
C11_Witness ==
  /\ Len(PersistedLog) = MAX_CHAT_HISTORY
  /\ LastTurn(PersistedLog).id >= 2
  /\ PersistedLog[1].id > 2 - MAX_CHAT_HISTORY

\* new is old with turns appended at the end and, only when that reaches the
\* cap, turns dropped from the front.
AppendedTo(old, new) ==
  \E k \in 0..Len(old) :
    /\ k > 0 => Len(new) = MAX_CHAT_HISTORY
    /\ Len(new) >= Len(old) - k
    /\ SubSeq(new, 1, Len(old) - k) = SubSeq(old, k + 1, Len(old))

\* C12.  Every write of the conversation log changes the persisted log only
\* by appending turns at its end and, when over the cap, dropping turns from
\* its front: no persisted turn is removed or altered otherwise.
C12_LogAppendOnly ==
  [][files'[CHAT_HISTORY_FILE] # files[CHAT_HISTORY_FILE] =>
       AppendedTo(PersistedLog, PersistedLog')]_vars

\* The persisted log holds the turn.
Logged(turn) == \E i \in DOMAIN PersistedLog : PersistedLog[i] = turn

\* A turn holding the text passed to say() for message id.  (The assistant
\* turn the program pushes, Turn("assistant", id), is the model's message,
\* which holds the function call and not the reply.)
ReplyTurn(id) == Turn("reply", id)

\* The handler of p has ended, having handled a message with text.
Handled(p) == pc[p] \in {"done", "failed"} /\ msg[p].kind = "text"

\* The inbound half of C13: the user turn of every handled message is in the
\* persisted log.
InboundLogged == \A p \in Procs : Handled(p) => Logged(Turn("user", msg[p].id))

\* C13.  Once a message with text has been handled, the persisted log holds
\* its user turn and, when a reply was sent, a turn for the reply, whatever
\* the outcome of the dispatch.
C13_EveryMessageLogged ==
  \A p \in Procs :
    Handled(p) =>
      /\ Logged(Turn("user", msg[p].id))
      /\ replies[p] # <<>> => Logged(ReplyTurn(msg[p].id))

\* The extractor gave p no usable command: the request failed or the answer
\* carried no function call (parseMessage returned null).
NoUsableCommand(p) ==
  pc[p] = "done" /\ msg[p].kind = "text" /\ functionCall[p] = NoCall

\* The extractor failed for p: the request failed, or the function call's
\* arguments text does not parse.
ExtractorFailed(p) == NoUsableCommand(p) \/ ~functionCall[p].parsable

\* C14.  No handler ends in an exception, and a message whose extraction
\* failed (failed request, or arguments text that does not parse) leaves the
\* leaderboard file unwritten.
C14_ExtractorFaultsHandled ==
  \A p \in Procs :
    /\ pc[p] # "failed"
    /\ ExtractorFailed(p) => ~wrote[p]

\* The generic "couldn't understand" reply of the specification.  (No call
\* of say() in the source sends such a text.)
UnrecognizedReply == Reply("unrecognized", NoPlayer, <<>>, <<>>)

\* C15.  A message for which the extractor gave no usable command has got the
\* generic "couldn't understand" reply, and only that, and its handler wrote
\* no leaderboard.
C15_UnrecognizedReplied ==
  \A p \in Procs :
    NoUsableCommand(p) => (replies[p] = <<UnrecognizedReply>> /\ ~wrote[p])

\* p holds the lock of f: the entry of f in the lock table is p's.
HoldsLock(p, f) == p \in locks[f]

\* C16.  No pipeline holds the leaderboard lock and the conversation-log lock
\* at the same time: a pipeline holds a lock only inside a store operation on
\* that file, and holds none while the lock() of a store operation it has
\* started is pending.
C16_NeverBothLocks ==
  \A p \in Procs :
    /\ ~(HoldsLock(p, LEADERBOARD_FILE) /\ HoldsLock(p, CHAT_HISTORY_FILE))
    /\ \A f \in Files : HoldsLock(p, f) => InOpOn(p, f)
    /\ Locking(p) => \A f \in Files : ~HoldsLock(p, f)

\* C16 witness: a pipeline that has been through its conversation-log
\* operations holds the leaderboard lock for the write of a RecordGame while
\* another pipeline holds the conversation-log lock.
C16_Witness ==
  \E p, q \in Procs :
    /\ pc[p] = "recordWrite" /\ HoldsLock(p, LEADERBOARD_FILE)
    /\ HoldsLock(q, CHAT_HISTORY_FILE)

\* C17.  A bot message is ignored entirely: its handler has ended at once
\* with no reply, no function call, no conversation array, no lock held and
\* no step left to take, and its delivery leaves both files and both locks as
\* they were.
C17_BotIgnored ==
  /\ [](\A p \in Procs :
          msg[p].kind = "bot" =>
            /\ pc[p] = "done" /\ phase[p] = "-"
            /\ replies[p] = <<>> /\ ~wrote[p]
            /\ functionCall[p] = NoCall /\ chatHistory[p] = <<>>
            /\ \A f \in Files : ~HoldsLock(p, f)
            /\ ~ENABLED Step(p))
  /\ [][\A p \in Procs :
          (msg'[p] # msg[p] /\ msg'[p].kind = "bot") =>
            UNCHANGED <<files, lockDir, locks>>]_vars

\* C17 witness: a bot message has been delivered while the conversation log
\* holds turns and another pipeline holds the conversation-log lock.
C17_Witness ==
  \E p, q \in Procs :
    /\ msg[p].kind = "bot"
    /\ HoldsLock(q, CHAT_HISTORY_FILE)
    /\ PersistedLog # <<>>

\* C18.  The write of a RecordGame whose leaderboard read failed removes no
\* persisted entry and decreases no persisted win count.
C18_FailedReadKeepsData ==
  [][\A p \in Procs :
       (readFailed[p] /\ ~wrote[p] /\ wrote'[p]) =>
         \A i \in DOMAIN Persisted :
           /\ HasPlayer(Persisted', Persisted[i].player)
           /\ WinsOf(Persisted', Persisted[i].player) >= Persisted[i].wins]_vars

\* C19.  The "Game recorded" reply is sent only by a command whose
\* writeLeaderboard() wrote the leaderboard file.
C19_SuccessOnlyIfPersisted ==
  \A p \in Procs :
    (\E i \in DOMAIN replies[p] : replies[p][i].kind = "recorded") => wrote[p]

\* C20.  A lock leaves the lock table only by a step of the operation that
\* acquired it, and an operation whose lock() was rejected changes neither
\* the lock table nor a lock directory while it finishes.
C20_OnlyAcquirerReleases ==
  [][/\ \A f \in Files : \A q \in Procs :
          (HoldsLock(q, f) /\ ~HoldsLock(q, f)') =>
            (phase[q] = "unlock" /\ phase'[q] = "rmdir")
     /\ \A p \in Procs :
          (/\ pc[p] \in StoreOps
           /\ opResult[p] \in {"ENOENT", "ELOCKED"}
           /\ <<pc[p], phase[p]>>' # <<pc[p], phase[p]>>) =>
            UNCHANGED <<locks, lockDir>>]_vars

====
